---- MODULE Spec2Model ----
(***************************************************************************)
(* Iterated prisoner's dilemma: the Match engine of Dilemma.               *)
(*                                                                         *)
(* One Match object (the record m) is driven by direct callers of          *)
(* playRound, by playMatch drivers and by re-entrant calls made from       *)
(* inside a strategy while it is being resumed.  JavaScript runs each       *)
(* synchronous block to completion, so the only places where another call  *)
(* can reach the Match while playRound's body is executing are the two     *)
(* gen.next() calls; the body is therefore cut at exactly those places.    *)
(* The reactions of playMatch (the .then/.catch callbacks) are microtasks  *)
(* and run one at a time between synchronous blocks.                       *)
(*                                                                         *)
(* The same module models the Tournament (a triangular grid of Matches,    *)
(* getMatch and getScore) and the legacy single-call play function, which  *)
(* the Match engine is compared against.                                   *)
(***************************************************************************)
EXTENDS Integers, Sequences, FiniteSets, TLC

\* ---------------------------------------------------------------- bounds
MaxRounds == 3
NumDrivers == 2

\* ------------------------------------------------------------- constants
COOPERATE == "COOPERATE"
DEFECT == "DEFECT"
undefined == "undefined"

paused == "Dilemma.Match.paused"
running == "Dilemma.Match.running"
done == "Dilemma.Match.done"

Moves == {COOPERATE, DEFECT}

\* Values a strategy may yield that are not moves: yield with no operand,
\* and a string that is not one of the two constants.
IllegalValues == {undefined, "cooperate"}

\* A strategy that runs off its end (or executes return) instead of yielding.
RETURN == "return"

\* The strategy factories a Match can be built from: the three example
\* generator functions, an arbitrary generator (any legal move, any illegal
\* value or termination on each resume) and a factory that throws.
Factories == {"goodGuyGreg", "scumbagSteve", "HighExpectationsAsianFather",
              "blackbox", "raises"}

Drivers == 1..NumDrivers

\* ------------------------------------------------------------ generators
\* What the body of a generator may do on one resume.  The example
\* strategies are deterministic; the arbitrary one picks.
Choices(gen) ==
    IF gen.kind = "blackbox" /\ gen.st # "closed"
    THEN Moves \cup IllegalValues \cup {RETURN}
    ELSE {"body"}

\* The value of this._g1 / this._g2 while setupMatchPlayer has not populated it.
NoGen == [kind |-> undefined, st |-> undefined]

\* genfn(): calling a generator function creates a suspended generator and
\* runs none of its body; the factory "raises" is an ordinary function that
\* throws.
genfn(kind) ==
    IF kind = "raises"
    THEN [threw |-> TRUE, gen |-> NoGen]
    ELSE [threw |-> FALSE, gen |-> [kind |-> kind, st |-> "start"]]

nextFatherForgiving(gen, arg, ch) ==
    CASE gen.kind = "goodGuyGreg" ->
           [done |-> FALSE, value |-> COOPERATE,
            gen |-> [gen EXCEPT !.st = "yielded"]]
      [] gen.kind = "scumbagSteve" ->
           [done |-> FALSE, value |-> DEFECT,
            gen |-> [gen EXCEPT !.st = "yielded"]]
      [] gen.kind = "HighExpectationsAsianFather" ->
           IF gen.st = "start"
           THEN [done |-> FALSE, value |-> COOPERATE,
                 gen |-> [gen EXCEPT !.st = "trying"]]
           ELSE IF gen.st = "trying" /\ arg # DEFECT
           THEN [done |-> FALSE, value |-> COOPERATE, gen |-> gen]
           ELSE [done |-> FALSE, value |-> DEFECT,
                 gen |-> [gen EXCEPT !.st = "disappointed"]]
      [] OTHER ->
           IF gen.st = "closed" \/ ch = RETURN
           THEN [done |-> TRUE, value |-> undefined,
                 gen |-> [gen EXCEPT !.st = "closed"]]
           ELSE [done |-> FALSE, value |-> ch,
                 gen |-> [gen EXCEPT !.st = "yielded"]]

\* gen.next(arg): the first resume discards arg and runs to the first
\* yield; later resumes deliver arg as the value of the pending yield.
next(gen, arg, ch) ==
    CASE gen.kind = "goodGuyGreg" ->
           [done |-> FALSE, value |-> COOPERATE,
            gen |-> [gen EXCEPT !.st = "yielded"]]
      [] gen.kind = "scumbagSteve" ->
           [done |-> FALSE, value |-> DEFECT,
            gen |-> [gen EXCEPT !.st = "yielded"]]
      [] gen.kind = "HighExpectationsAsianFather" ->
           IF gen.st = "start"
           THEN [done |-> FALSE, value |-> COOPERATE,
                 gen |-> [gen EXCEPT !.st = "trying"]]
           ELSE IF gen.st = "trying" /\ arg = COOPERATE
           THEN [done |-> FALSE, value |-> COOPERATE, gen |-> gen]
           ELSE [done |-> FALSE, value |-> DEFECT,
                 gen |-> [gen EXCEPT !.st = "disappointed"]]
      [] OTHER ->
           IF gen.st = "closed" \/ ch = RETURN
           THEN [done |-> TRUE, value |-> undefined,
                 gen |-> [gen EXCEPT !.st = "closed"]]
           ELSE [done |-> FALSE, value |-> ch,
                 gen |-> [gen EXCEPT !.st = "yielded"]]

\* ----------------------------------------------------------- constructor
ScoreField(n) == IF n = 1 THEN "score1" ELSE "score2"
GenField(n) == IF n = 1 THEN "_g1" ELSE "_g2"

setupMatchPlayerOwnScore(match, n, kind) ==
    LET made == genfn(kind) IN
    IF made.threw
    THEN [ok |-> FALSE,
          match |-> [match EXCEPT !.status = done,
                                  ![ScoreField(n)] = match.roundLimit * 5]]
    ELSE [ok |-> TRUE, match |-> [match EXCEPT ![GenField(n)] = made.gen]]

\* setupMatchPlayer(match, n, genfn): a factory that throws forfeits; the
\* exception is caught (and so is any exception of the console.error call).
setupMatchPlayer(match, n, kind) ==
    LET made == genfn(kind) IN
    IF made.threw
    THEN [ok |-> FALSE,
          match |-> [match EXCEPT !.status = done,
                                  ![ScoreField(3 - n)] = match.roundLimit * 5]]
    ELSE [ok |-> TRUE, match |-> [match EXCEPT ![GenField(n)] = made.gen]]

\* new Match(player1, player2, rounds).  scoreChange1/2 and prevMove1/2 are
\* properties the constructor does not create; reading them gives undefined.
Match(player1, player2, rounds) ==
    LET this == [round |-> 0, roundLimit |-> rounds,
                 score1 |-> 0, score2 |-> 0,
                 lastMove1 |-> undefined, lastMove2 |-> undefined,
                 lastScore1 |-> undefined, lastScore2 |-> undefined,
                 status |-> paused,
                 _g1 |-> NoGen, _g2 |-> NoGen,
                 scoreChange1 |-> undefined, scoreChange2 |-> undefined,
                 prevMove1 |-> undefined, prevMove2 |-> undefined]
        s1 == setupMatchPlayer(this, 1, player1)
    IN  IF s1.ok THEN setupMatchPlayer(s1.match, 2, player2).match
        ELSE s1.match

\* ------------------------------------------------------------- one round
\* The methods of Match.prototype.  getNextMove calls match._logError, which
\* is not among them (and is no own property of a Match either).
MatchPrototype == {"playRound", "playMatch"}

\* getNextMove(match, name, gen, arg).  A property that is not a function
\* cannot be called: gen.next of an unpopulated _g and match._logError both
\* end the call with a TypeError, before the "return undefined" that follows.
getNextMove(match, gen, arg, ch) ==
    IF gen = NoGen
    THEN [threw |-> TRUE, move |-> undefined, gen |-> gen, made |-> "none"]
    ELSE
    LET result == next(gen, arg, ch)
        move == result.value
    IN  IF result.done
        THEN [threw |-> "_logError" \notin MatchPrototype,
              move |-> undefined, gen |-> result.gen, made |-> RETURN]
        ELSE IF move # COOPERATE /\ move # DEFECT
        THEN [threw |-> "_logError" \notin MatchPrototype,
              move |-> undefined, gen |-> result.gen, made |-> move]
        ELSE [threw |-> FALSE, move |-> move, gen |-> result.gen,
              made |-> move]

evaluateSwapped(mv1, mv2) ==
    IF mv1 = COOPERATE
    THEN IF mv2 = COOPERATE THEN <<3, 3>> ELSE <<5, 0>>
    ELSE IF mv2 = COOPERATE THEN <<0, 5>> ELSE <<1, 1>>

evaluateMutualDefection(mv1, mv2) ==
    IF mv1 = COOPERATE
    THEN IF mv2 = COOPERATE THEN <<3, 3>> ELSE <<0, 5>>
    ELSE IF mv2 = COOPERATE THEN <<5, 0>> ELSE <<3, 3>>

\* "Interpret the results": the score changes of a round of two legal moves.
evaluate(mv1, mv2) ==
    IF mv1 = COOPERATE
    THEN IF mv2 = COOPERATE THEN <<3, 3>> ELSE <<0, 5>>
    ELSE IF mv2 = COOPERATE THEN <<5, 0>> ELSE <<1, 1>>

scoreRoundEarlyDone(self, mv1, mv2) ==
    IF mv1 = undefined \/ mv2 = undefined
    THEN LET c1 == IF mv1 = undefined THEN 0
                   ELSE 5 * (self.roundLimit - self.round)
             c2 == IF mv2 = undefined THEN 0
                   ELSE 5 * (self.roundLimit - self.round)
         IN  [self EXCEPT !.scoreChange1 = c1, !.scoreChange2 = c2,
                          !.score1 = @ + c1, !.score2 = @ + c2,
                          !.status = done]
    ELSE LET d == evaluate(mv1, mv2)
             r == self.round + 1
         IN  [self EXCEPT !.scoreChange1 = d[1], !.scoreChange2 = d[2],
                          !.score1 = @ + d[1], !.score2 = @ + d[2],
                          !.prevMove1 = mv1, !.prevMove2 = mv2,
                          !.round = r,
                          !.status = IF r + 1 >= self.roundLimit THEN done
                                     ELSE paused]

scoreRoundLateDone(self, mv1, mv2) ==
    IF mv1 = undefined \/ mv2 = undefined
    THEN LET c1 == IF mv1 = undefined THEN 0
                   ELSE 5 * (self.roundLimit - self.round)
             c2 == IF mv2 = undefined THEN 0
                   ELSE 5 * (self.roundLimit - self.round)
         IN  [self EXCEPT !.scoreChange1 = c1, !.scoreChange2 = c2,
                          !.score1 = @ + c1, !.score2 = @ + c2,
                          !.status = done]
    ELSE LET d == evaluate(mv1, mv2)
             r == self.round + 1
         IN  [self EXCEPT !.scoreChange1 = d[1], !.scoreChange2 = d[2],
                          !.score1 = @ + d[1], !.score2 = @ + d[2],
                          !.prevMove1 = mv1, !.prevMove2 = mv2,
                          !.round = r,
                          !.status = IF r > self.roundLimit THEN done
                                     ELSE paused]

\* The rest of playRound's executor once both moves are in hand.
scoreRound(self, mv1, mv2) ==
    IF mv1 = undefined \/ mv2 = undefined
    THEN LET c1 == IF mv1 = undefined THEN 0
                   ELSE 5 * (self.roundLimit - self.round)
             c2 == IF mv2 = undefined THEN 0
                   ELSE 5 * (self.roundLimit - self.round)
         IN  [self EXCEPT !.scoreChange1 = c1, !.scoreChange2 = c2,
                          !.score1 = @ + c1, !.score2 = @ + c2,
                          !.status = done]
    ELSE LET d == evaluate(mv1, mv2)
             r == self.round + 1
         IN  [self EXCEPT !.scoreChange1 = d[1], !.scoreChange2 = d[2],
                          !.score1 = @ + d[1], !.score2 = @ + d[2],
                          !.prevMove1 = mv1, !.prevMove2 = mv2,
                          !.round = r,
                          !.status = IF r >= self.roundLimit THEN done
                                     ELSE paused]

playRoundCheckNoDone(status) ==
    IF status = running THEN "AlreadyRunning" ELSE "ok"

playRoundCheckNoRunning(status) ==
    IF status = done THEN "AlreadyDone" ELSE "ok"

\* The two guards at the head of playRound.
playRoundCheck(status) ==
    IF status = running THEN "AlreadyRunning"
    ELSE IF status = done THEN "AlreadyDone"
    ELSE "ok"

playMatchCheckDrives(status) ==
    IF status = running THEN "AlreadyRunning" ELSE "go"

\* The two guards at the head of playMatch.
playMatchCheck(status) ==
    IF status = running THEN "AlreadyRunning"
    ELSE IF status = done THEN "resolved"
    ELSE "go"

\* ----------------------------------------------------------- legacy play
\* getNextMove(name, gen, arg) of the legacy driver: throws where the Match
\* version reports.
legacyGetNextMove(gen, arg, ch) ==
    LET result == next(gen, arg, ch)
        move == result.value
    IN  IF result.done \/ (move # COOPERATE /\ move # DEFECT)
        THEN [threw |-> TRUE, move |-> undefined, gen |-> result.gen]
        ELSE [threw |-> FALSE, move |-> move, gen |-> result.gen]

RECURSIVE playLoop(_, _, _, _, _, _, _, _)
\* The for loop of the legacy play, from round i on.
playLoop(gen1, gen2, score1, score2, prev1, prev2, i, rounds) ==
    IF i >= rounds
    THEN [completion |-> "return", value |-> <<score1, score2>>]
    ELSE
    LET r1 == legacyGetNextMove(gen1, prev2, "body") IN
    IF r1.threw THEN [completion |-> "throw", value |-> <<score1, score2>>]
    ELSE
    LET r2 == legacyGetNextMove(gen2, prev1, "body") IN
    IF r2.threw THEN [completion |-> "throw", value |-> <<score1, score2>>]
    ELSE
    LET mv1 == r1.move
        mv2 == r2.move
        s1 == IF mv1 = COOPERATE
              THEN IF mv2 = COOPERATE THEN score1 + 3 ELSE score1
              ELSE IF mv2 = COOPERATE THEN score1 + 5 ELSE score1 + 1
        s2 == IF mv1 = COOPERATE
              THEN IF mv2 = COOPERATE THEN score2 + 3 ELSE score2 + 5
              ELSE IF mv2 = COOPERATE THEN score2 ELSE score2 + 1
    IN  playLoop(r1.gen, r2.gen, s1, s2, mv1, mv2, i + 1, rounds)

\* play(player1, player2, rounds) of the legacy driver, for the example
\* strategies.
play(player1, player2, rounds) ==
    playLoop(genfn(player1).gen, genfn(player2).gen, 0, 0,
             undefined, undefined, 0, rounds)

\* ------------------------------------------------------------ tournament
\* Roster sizes and round limits the tournaments are built with.
MaxPlayers == 3
MaxTournamentRounds == 1

\* The factories a roster is drawn from.
RosterFactories == {"goodGuyGreg", "scumbagSteve", "raises"}

\* Index pairs in creation order are immaterial: matches[i][j] exists for
\* the pairs the two nested loops visit.
TournamentSelfMatches(roster, rounds) ==
    LET N == Cardinality(DOMAIN roster) IN
    [players |-> roster,
     matches |-> [p \in {q \in (0..N-1) \X (0..N-1) : q[2] <= q[1]} |->
                     Match(roster[p[1]], roster[p[2]], rounds)],
     scores |-> [i \in 0..N-1 |-> 0]]

\* new Tournament(players, rounds); the roster is indexed from 0.
Tournament(roster, rounds) ==
    LET N == Cardinality(DOMAIN roster) IN
    [players |-> roster,
     matches |-> [p \in {q \in (0..N-1) \X (0..N-1) : q[2] < q[1]} |->
                     Match(roster[p[1]], roster[p[2]], rounds)],
     scores |-> [i \in 0..N-1 |-> 0]]

\* Numeric arguments are held in halves (the number x as 2x), so that 0.5
\* is the value 1 and an integer is an even value.
floor(h) == 2 * (h \div 2)

\* The arguments getMatch is asked with for a roster of N: the integers
\* -2 .. N and the non-integer 0.5.
QueryArgs(N) == {2 * k : k \in -2..N} \cup {1}

\* The outcome of a call: how it completed and with what.
Outcome(op, a1, a2, completion, kind, at, number, string) ==
    [op |-> op, i1 |-> a1, i2 |-> a2, completion |-> completion,
     kind |-> kind, at |-> at, number |-> number, string |-> string]

\* Tournament.prototype.getMatch(i1, i2).  Past the argument test the result
\* is this.matches[i1][i2]: reading an index of the missing row of a
\* negative i1 is a TypeError, a missing entry of an existing row is
\* undefined.
getMatch(this, i1, i2) ==
    LET N == Cardinality(DOMAIN this.players) IN
    IF floor(i1) # i1 \/ i1 >= 2 * N \/ floor(i2) # i2 \/ i2 >= i1
    THEN Outcome("getMatch", i1, i2, "throw", "InvalidArgument", <<>>, 0, "")
    ELSE LET a == i1 \div 2
             b == i2 \div 2
         IN  IF a \notin 0..N-1
             THEN Outcome("getMatch", i1, i2, "throw", "TypeError", <<>>, 0, "")
             ELSE IF <<a, b>> \in DOMAIN this.matches
             THEN Outcome("getMatch", i1, i2, "return", "Match", <<a, b>>, 0, "")
             ELSE Outcome("getMatch", i1, i2, "return", "undefined", <<>>, 0, "")

\* score += match, where match is a Match object: + converts an object
\* operand to the string "[object Object]" and then concatenates.
plusObject(score) ==
    [typeof |-> "string", number |-> 0,
     string |-> (IF score.typeof = "number" THEN ToString(score.number)
                 ELSE score.string) \o "[object Object]"]

RECURSIVE getScoreLoop(_, _, _, _)
\* The two loops of getScore run over j = from .. to-1; only the number of
\* operands matters, each being a Match object.
getScoreLoop(this, j, to, score) ==
    IF j < to THEN getScoreLoop(this, j + 1, to, plusObject(score))
    ELSE score

\* Tournament.prototype.getScore(i).
getScore(this, i) ==
    LET N == Cardinality(DOMAIN this.players)
        zero == [typeof |-> "number", number |-> 0, string |-> ""]
        s1 == getScoreLoop(this, 0, i, zero)
        s2 == getScoreLoop(this, i + 1, N, s1)
    IN  Outcome("getScore", 2 * i, 0, "return", s2.typeof, <<>>,
                s2.number, s2.string)

\* One whole playRound of a Match none of whose strategies calls back into
\* it: guards, both resumes, scoring.
playRoundSync(match, ch1, ch2) ==
    LET c == playRoundCheck(match.status) IN
    IF c # "ok" THEN [result |-> c, match |-> match]
    ELSE
    LET self == [match EXCEPT !.status = running]
        r1 == getNextMove(self, self._g1, self.lastMove2, ch1)
        self1 == [self EXCEPT !._g1 = r1.gen]
    IN  IF r1.threw THEN [result |-> "rejected", match |-> self1]
        ELSE
        LET r2 == getNextMove(self1, self1._g2, self1.lastMove1, ch2)
            self2 == [self1 EXCEPT !._g2 = r2.gen]
        IN  IF r2.threw THEN [result |-> "rejected", match |-> self2]
            ELSE [result |-> "fulfilled",
                  match |-> scoreRound(self2, r1.move, r2.move)]

\* ----------------------------------------------------------------- state
VARIABLES
    m,         \* the Match object
    pc,        \* where playRound's body stands: idle, move1, move2, score
    move1,     \* playRound's local move1
    move2,     \* playRound's local move2
    owner,     \* who called the playRound in progress: 0 a direct caller,
               \* d the go() of playMatch driver d
    promise,   \* the promise of the latest playRound: none, pending,
               \* fulfilled, rejected
    drv,       \* per playMatch call: unused, awaiting (its playRound is in
               \* progress), roundFulfilled / roundRejected (the reaction
               \* of its .then is queued), thenRejected (the promise of
               \* its .then is rejected and the reaction of its .catch is
               \* queued), resolved, rejected
    err,       \* per playMatch call: the reason of its rejection
    caught,    \* per playMatch call: the reason the promise of its .then
               \* was rejected with
    queue,     \* the microtask queue: the playMatch calls whose reaction
               \* is queued, oldest first
    event,     \* what the last step did: operation, context, outcome
    args,      \* the argument of the latest gen.next of each player
    calls,     \* how many times each player's generator was resumed
    produced,  \* what each player's generator produced in the latest round
    pre,       \* score1, score2 and round when the latest playRound began
    players,   \* the two factories the Match was constructed from
    t,         \* the Tournament object
    ask,       \* the arguments the Tournament is queried with
    answer     \* the outcome of the latest call on the Tournament or on
               \* one of its Matches

exec == <<pc, move1, move2, owner, promise>>
seen == <<args, calls, produced, pre>>
tvars == <<t, ask, answer>>
mvars == <<m, pc, move1, move2, owner, promise, drv, err, caught, queue,
           event,
           args, calls, produced, pre, players>>
vars == <<m, pc, move1, move2, owner, promise, drv, err, caught, queue,
          event,
          args, calls, produced, pre, players, t, ask, answer>>

NoAnswer == Outcome("none", 0, 0, "none", "none", <<>>, 0, "")

Init ==
    \E player1 \in Factories, player2 \in Factories, rounds \in 1..MaxRounds :
        /\ m = Match(player1, player2, rounds)
        /\ players = <<player1, player2>>
        /\ pc = "idle"
        /\ move1 = undefined
        /\ move2 = undefined
        /\ owner = 0
        /\ promise = "none"
        /\ drv = [d \in Drivers |-> "unused"]
        /\ err = [d \in Drivers |-> "none"]
        /\ caught = [d \in Drivers |-> "none"]
        /\ queue = <<>>
        /\ event = [op |-> "new Match", ctx |-> "caller", result |-> "Match"]
        /\ args = <<"none", "none">>
        /\ calls = <<0, 0>>
        /\ produced = <<"none", "none">>
        /\ pre = [score1 |-> 0, score2 |-> 0, round |-> 0]
        /\ t = Tournament(<<>>, 1)
        /\ ask = <<0, 0>>
        /\ answer = NoAnswer

\* A call comes either from ordinary code, which runs only while no
\* playRound body is on the stack, or from the body of the arbitrary
\* strategy that is being resumed right now.
CanCall(ctx) ==
    \/ ctx = "caller" /\ pc = "idle"
    \/ ctx = "strategy" /\ pc = "move1" /\ m._g1.kind = "blackbox"
    \/ ctx = "strategy" /\ pc = "move2" /\ m._g2.kind = "blackbox"

\* playRound passes its guards: status becomes running and the executor of
\* the new promise starts.
Enter(who) ==
    /\ m' = [m EXCEPT !.status = running]
    /\ pc' = "move1"
    /\ move1' = undefined
    /\ move2' = undefined
    /\ owner' = who
    /\ promise' = "pending"
    /\ pre' = [score1 |-> m.score1, score2 |-> m.score2, round |-> m.round]
    /\ produced' = <<"none", "none">>
    /\ UNCHANGED <<args, calls>>

\* The promise of the playRound in progress settles.  A driver's reaction
\* to it is queued; a direct caller just holds the settled promise.
Settle(outcome) ==
    /\ pc' = "idle"
    /\ promise' = outcome
    /\ drv' = IF owner = 0 THEN drv
              ELSE [drv EXCEPT ![owner] =
                       IF outcome = "fulfilled" THEN "roundFulfilled"
                       ELSE "roundRejected"]
    /\ queue' = IF owner = 0 THEN queue ELSE Append(queue, owner)
    /\ UNCHANGED <<owner, err, caught>>

\* m.playRound() called directly (lines 118-126).
PlayRound(ctx) ==
    /\ CanCall(ctx)
    /\ LET c == playRoundCheck(m.status) IN
       IF c = "ok"
       THEN /\ Enter(0)
            /\ event' = [op |-> "playRound", ctx |-> ctx, result |-> "promise"]
            /\ UNCHANGED <<drv, err, caught, queue, players, tvars>>
       ELSE /\ event' = [op |-> "playRound", ctx |-> ctx, result |-> c]
            /\ UNCHANGED <<m, exec, drv, err, caught, queue, seen, players, tvars>>

\* var move1 = getNextMove(self, 1, self._g1, self.lastMove2) (line 130).
GetNextMove1 ==
    /\ pc = "move1"
    /\ \E ch \in Choices(m._g1) :
         LET r == getNextMove(m, m._g1, m.lastMove2, ch) IN
         /\ m' = [m EXCEPT !._g1 = r.gen]
         /\ args' = [args EXCEPT ![1] = m.lastMove2]
         /\ calls' = [calls EXCEPT ![1] = @ + 1]
         /\ produced' = [produced EXCEPT ![1] = r.made]
         /\ IF r.threw
            THEN /\ Settle("rejected")
                 /\ UNCHANGED <<move1, move2>>
                 /\ event' = [op |-> "getNextMove", ctx |-> "1",
                              result |-> "TypeError"]
            ELSE /\ move1' = r.move
                 /\ pc' = "move2"
                 /\ event' = [op |-> "getNextMove", ctx |-> "1",
                              result |-> r.move]
                 /\ UNCHANGED <<move2, owner, promise, drv, err,
                              caught, queue>>
    /\ UNCHANGED <<pre, players, tvars>>

\* var move2 = getNextMove(self, 2, self._g2, self.lastMove1) (line 131).
GetNextMove2 ==
    /\ pc = "move2"
    /\ \E ch \in Choices(m._g2) :
         LET r == getNextMove(m, m._g2, m.lastMove1, ch) IN
         /\ m' = [m EXCEPT !._g2 = r.gen]
         /\ args' = [args EXCEPT ![2] = m.lastMove1]
         /\ calls' = [calls EXCEPT ![2] = @ + 1]
         /\ produced' = [produced EXCEPT ![2] = r.made]
         /\ IF r.threw
            THEN /\ Settle("rejected")
                 /\ UNCHANGED <<move1, move2>>
                 /\ event' = [op |-> "getNextMove", ctx |-> "2",
                              result |-> "TypeError"]
            ELSE /\ move2' = r.move
                 /\ pc' = "score"
                 /\ event' = [op |-> "getNextMove", ctx |-> "2",
                              result |-> r.move]
                 /\ UNCHANGED <<move1, owner, promise, drv, err,
                              caught, queue>>
    /\ UNCHANGED <<pre, players, tvars>>

\* The forfeit test, the scoring and resolve(self) (lines 133-176).
Score ==
    /\ pc = "score"
    /\ m' = scoreRound(m, move1, move2)
    /\ Settle("fulfilled")
    /\ event' = [op |-> "resolve", ctx |-> "round", result |-> m'.status]
    /\ UNCHANGED <<move1, move2, seen, players, tvars>>

\* go() of playMatch driver d, called from the executor of the driver's
\* promise: self.playRound().then(...).catch(reject).  A playRound that
\* throws makes the executor throw, which rejects the driver's promise.
Go(d) ==
    LET c == playRoundCheck(m.status) IN
    IF c = "ok"
    THEN /\ Enter(d)
         /\ drv' = [drv EXCEPT ![d] = "awaiting"]
         /\ UNCHANGED <<err, caught, queue>>
    ELSE /\ drv' = [drv EXCEPT ![d] = "rejected"]
         /\ err' = [err EXCEPT ![d] = c]
         /\ UNCHANGED <<m, exec, seen, caught, queue>>

\* m.playMatch() (lines 180-198); d names the promise it returns.
PlayMatch(d, ctx) ==
    /\ CanCall(ctx)
    /\ drv[d] = "unused"
    /\ LET c == playMatchCheck(m.status) IN
       CASE c = "AlreadyRunning" ->
              /\ event' = [op |-> "playMatch", ctx |-> ctx, result |-> c]
              /\ UNCHANGED <<m, exec, drv, err, caught, queue, seen>>
         [] c = "resolved" ->
              /\ drv' = [drv EXCEPT ![d] = "resolved"]
              /\ event' = [op |-> "playMatch", ctx |-> ctx, result |-> c]
              /\ UNCHANGED <<m, exec, err, caught, queue, seen>>
         [] OTHER ->
              /\ Go(d)
              /\ event' = [op |-> "playMatch", ctx |-> ctx,
                           result |-> "promise"]
    /\ UNCHANGED <<players, tvars>>

\* The promise of driver d's .then(...) is rejected with reason c: the
\* reaction of its .catch(reject) is queued behind the reactions already
\* waiting, and the driver's own promise stays pending.
ThenRejected(d, c) ==
    /\ drv' = [drv EXCEPT ![d] = "thenRejected"]
    /\ caught' = [caught EXCEPT ![d] = c]
    /\ queue' = Append(Tail(queue), d)
    /\ UNCHANGED <<m, exec, seen, err>>

\* go() called from the callback of .then: a playRound that throws makes
\* the callback throw, which rejects the promise of .then.
GoAgain(d) ==
    LET c == playRoundCheck(m.status) IN
    IF c = "ok"
    THEN /\ Enter(d)
         /\ drv' = [drv EXCEPT ![d] = "awaiting"]
         /\ queue' = Tail(queue)
         /\ UNCHANGED <<err, caught>>
    ELSE ThenRejected(d, c)

DriverThenAlwaysGoes(d) ==
    /\ pc = "idle"
    /\ queue # <<>>
    /\ Head(queue) = d
    /\ drv[d] \in {"roundFulfilled", "roundRejected"}
    /\ IF drv[d] = "roundRejected"
       THEN /\ ThenRejected(d, "TypeError")
            /\ event' = [op |-> "then", ctx |-> "driver", result |-> "passed"]
       ELSE /\ GoAgain(d)
            /\ event' = [op |-> "then", ctx |-> "driver", result |-> "go"]
    /\ UNCHANGED <<players, tvars>>

\* The reaction of driver d's .then to its playRound promise (lines
\* 189-194), run when it is the oldest in the queue: a rejection passes to
\* the promise of .then, there being no rejection callback; a fulfilment
\* resolves the driver when the Match is done and calls go() again
\* otherwise.
DriverThen(d) ==
    /\ pc = "idle"
    /\ queue # <<>>
    /\ Head(queue) = d
    /\ drv[d] \in {"roundFulfilled", "roundRejected"}
    /\ IF drv[d] = "roundRejected"
       THEN /\ ThenRejected(d, "TypeError")
            /\ event' = [op |-> "then", ctx |-> "driver", result |-> "passed"]
       ELSE IF m.status = done
       THEN /\ drv' = [drv EXCEPT ![d] = "resolved"]
            /\ queue' = Tail(queue)
            /\ event' = [op |-> "then", ctx |-> "driver",
                         result |-> "resolved"]
            /\ UNCHANGED <<m, exec, err, caught, seen>>
       ELSE /\ GoAgain(d)
            /\ event' = [op |-> "then", ctx |-> "driver", result |-> "go"]
    /\ UNCHANGED <<players, tvars>>

\* The reaction of driver d's .catch(reject) (line 194), run when it is the
\* oldest in the queue: the driver's promise is rejected with the reason
\* the promise of .then was rejected with.
DriverCatch(d) ==
    /\ pc = "idle"
    /\ queue # <<>>
    /\ Head(queue) = d
    /\ drv[d] = "thenRejected"
    /\ drv' = [drv EXCEPT ![d] = "rejected"]
    /\ err' = [err EXCEPT ![d] = caught[d]]
    /\ queue' = Tail(queue)
    /\ event' = [op |-> "catch", ctx |-> "driver", result |-> "rejected"]
    /\ UNCHANGED <<m, exec, seen, caught, players, tvars>>

Next ==
    \/ \E ctx \in {"caller", "strategy"} : PlayRound(ctx)
    \/ GetNextMove1
    \/ GetNextMove2
    \/ Score
    \/ \E d \in Drivers, ctx \in {"caller", "strategy"} : PlayMatch(d, ctx)
    \/ \E d \in Drivers : DriverThen(d)
    \/ \E d \in Drivers : DriverCatch(d)

Spec == Init /\ [][Next]_vars

\* The engine runs a synchronous body to its end and then drains the
\* microtask queue: a started round is finished and the queued reactions
\* of the drivers are run.  Callers are free to call or not.
FairSpec ==
    /\ Spec
    /\ WF_vars(GetNextMove1)
    /\ WF_vars(GetNextMove2)
    /\ WF_vars(Score)
    /\ \A d \in Drivers : WF_vars(DriverThen(d))
    /\ \A d \in Drivers : WF_vars(DriverCatch(d))

TypeOK ==
    /\ m.status \in {paused, running, done}
    /\ pc \in {"idle", "move1", "move2", "score"}
    /\ owner \in {0} \cup Drivers
    /\ promise \in {"none", "pending", "fulfilled", "rejected"}

\* ---------------------------------------------------------------- claims
Misbehaved(n) == produced[n] \in IllegalValues \cup {RETURN}

Credit(n) ==
    IF produced[n] \in Moves THEN 5 * (m.roundLimit - pre.round) ELSE 0

\* C1: once a playRound in which a strategy yielded an illegal value or
\* returned without yielding is over, the Match is done, the offender's
\* score is what it was before the round and a side that yielded a legal
\* move has gained 5 * (roundLimit - rounds completed).
C1ForfeitEndsMatch ==
    (pc = "idle" /\ (Misbehaved(1) \/ Misbehaved(2))) =>
        /\ m.status = done
        /\ m.round = pre.round
        /\ m.score1 = pre.score1 + Credit(1)
        /\ m.score2 = pre.score2 + Credit(2)

\* C2: nothing a strategy produces makes playRound fail: its promise is
\* never rejected and no resume ends the round with an exception.
C2StrategyNeverFailsRound ==
    /\ promise # "rejected"
    /\ event.op = "getNextMove" => event.result \in Moves \cup {undefined}

\* C3: a playMatch promise that has settled is resolved, never rejected,
\* and the Match is then done.
C3PlayMatchResolves ==
    \A d \in Drivers :
        drv[d] \in {"resolved", "rejected"} =>
            drv[d] = "resolved" /\ m.status = done

\* C4: after the first round player 1 is resumed with the move player 2
\* made in the preceding round and player 2 with the move player 1 made in
\* it; the first resume of each gets no input.
C4ResumedWithOpponentsMove ==
    /\ (pc \in {"move2", "score"} /\ m.round >= 1) => args[1] = m.prevMove2
    /\ (pc = "score" /\ m.round >= 1) => args[2] = m.prevMove1
    /\ \A n \in {1, 2} : calls[n] = 1 => args[n] = undefined

\* The factory the constructor found throwing: player 2's factory is only
\* called when player 1's returned.
Raised(n) ==
    IF n = 1 THEN players[1] = "raises"
    ELSE players[1] # "raises" /\ players[2] = "raises"

\* C5: a Match whose construction met a throwing factory is done with round
\* counter 0, the other player holding 5 * roundLimit and the failing
\* player 0, in every state; no strategy is ever resumed and every
\* playRound on it fails with AlreadyDone.
C5FactoryForfeit ==
    \A n \in {1, 2} :
        Raised(n) =>
            /\ m.status = done
            /\ m.round = 0
            /\ m[ScoreField(3 - n)] = 5 * m.roundLimit
            /\ m[ScoreField(n)] = 0
            /\ calls = <<0, 0>>
            /\ event.op = "playRound" => event.result = "AlreadyDone"

C5Witness ==
    /\ Raised(2)
    /\ m.roundLimit >= 2
    /\ m.score1 = 5 * m.roundLimit
    /\ event = [op |-> "playRound", ctx |-> "caller", result |-> "AlreadyDone"]

\* C6: playRound on a done Match fails with AlreadyDone, leaves every field
\* of the Match (scores, round counter, state, both generators) as it was
\* and resumes no strategy.
C6DoneRejectsRound ==
    [][(m.status = done /\ event'.op = "playRound") =>
          /\ event'.result = "AlreadyDone"
          /\ m' = m
          /\ calls' = calls
          /\ pc' = pc]_vars

C6Witness ==
    /\ event = [op |-> "playRound", ctx |-> "caller", result |-> "AlreadyDone"]
    /\ m.round = m.roundLimit
    /\ m.round >= 2
    /\ m.score1 + m.score2 > 0

\* C7: playRound called while the body of an earlier playRound is still
\* executing fails with AlreadyRunning and changes neither score nor the
\* round counter.
C7ReentrantRejected ==
    [][(pc # "idle" /\ event'.op = "playRound") =>
          /\ event'.result = "AlreadyRunning"
          /\ m'.score1 = m.score1
          /\ m'.score2 = m.score2
          /\ m'.round = m.round]_vars

C7Witness ==
    /\ event = [op |-> "playRound", ctx |-> "strategy",
                result |-> "AlreadyRunning"]
    /\ pc = "move2"
    /\ m.round >= 1

\* C8: playMatch on a done Match returns a resolved promise, plays no
\* round, resumes no strategy and leaves the Match as it was.
C8PlayMatchOnDone ==
    [][(m.status = done /\ event'.op = "playMatch") =>
          /\ event'.result = "resolved"
          /\ \E d \in Drivers : drv[d] = "unused" /\ drv'[d] = "resolved"
          /\ m' = m
          /\ calls' = calls
          /\ pc' = pc]_vars

C8Witness ==
    /\ event = [op |-> "playMatch", ctx |-> "caller", result |-> "resolved"]
    /\ m.round = m.roundLimit
    /\ calls = <<m.roundLimit, m.roundLimit>>

\* The step that finishes a round in which both strategies yielded a move.
ScoredRound ==
    pc = "score" /\ pc' = "idle" /\ move1 \in Moves /\ move2 \in Moves

\* C9: a round of two legal moves adds to (score1, score2) the pair of the
\* payoff table: CC (3,3), CD (0,5), DC (5,0), DD (1,1).
C9PayoffTable ==
    [][ScoredRound =>
          <<m'.score1 - m.score1, m'.score2 - m.score2>> =
              CASE move1 = COOPERATE /\ move2 = COOPERATE -> <<3, 3>>
                [] move1 = COOPERATE /\ move2 = DEFECT -> <<0, 5>>
                [] move1 = DEFECT /\ move2 = COOPERATE -> <<5, 0>>
                [] move1 = DEFECT /\ move2 = DEFECT -> <<1, 1>>]_vars

C9Witness ==
    /\ event.op = "resolve"
    /\ move1 = DEFECT
    /\ move2 = COOPERATE
    /\ m.score1 = pre.score1 + 5
    /\ m.score2 = pre.score2

\* C10: the two score changes of a round of two legal moves add up to 6,
\* and to 2 when both players defect.
C10DeltaSum ==
    [][ScoredRound =>
          (m'.score1 - m.score1) + (m'.score2 - m.score2) =
              IF move1 = DEFECT /\ move2 = DEFECT THEN 2 ELSE 6]_vars

\* C10 as amended: the two score changes add up to 6 when both players
\* cooperate, to 5 when exactly one of them defects and to 2 when both do.
C10DeltaSumAmended ==
    [][ScoredRound =>
          (m'.score1 - m.score1) + (m'.score2 - m.score2) =
              IF move1 = COOPERATE /\ move2 = COOPERATE THEN 6
              ELSE IF move1 = DEFECT /\ move2 = DEFECT THEN 2
              ELSE 5]_vars

C10Witness ==
    /\ event.op = "resolve"
    /\ move1 = COOPERATE
    /\ move2 = DEFECT
    /\ m.round >= 2
    /\ m.score1 + m.score2 = pre.score1 + pre.score2 + 5

\* C11: a finished Match between two always-cooperate strategies has
\* score1 = score2 = 3 * roundLimit and round counter roundLimit; a finished
\* Match between always-cooperate (player 1) and always-defect (player 2)
\* has scores (0, 5 * roundLimit) and round counter roundLimit.
C11CooperateDefectTotals ==
    /\ (players = <<"goodGuyGreg", "goodGuyGreg">> /\ m.status = done) =>
          /\ m.score1 = 3 * m.roundLimit
          /\ m.score2 = 3 * m.roundLimit
          /\ m.round = m.roundLimit
    /\ (players = <<"goodGuyGreg", "scumbagSteve">> /\ m.status = done) =>
          /\ m.score1 = 0
          /\ m.score2 = 5 * m.roundLimit
          /\ m.round = m.roundLimit

C11Witness ==
    /\ players = <<"goodGuyGreg", "scumbagSteve">>
    /\ m.status = done
    /\ m.roundLimit = MaxRounds
    /\ m.score2 = 5 * MaxRounds
    /\ \E d \in Drivers : drv[d] = "resolved"

\* C12: between the conditional cooperator (player 1) and always-defect
\* (player 2) round 0 changes the scores by (0, 5) and every later round by
\* (1, 1), so that after N >= 1 rounds the scores are (N - 1, 5 + N - 1).
C12FatherAgainstSteve ==
    [][players = <<"HighExpectationsAsianFather", "scumbagSteve">> =>
          /\ ScoredRound =>
                <<m'.score1 - m.score1, m'.score2 - m.score2>> =
                    IF m.round = 0 THEN <<0, 5>> ELSE <<1, 1>>
          /\ (pc' = "idle" /\ m'.round >= 1) =>
                /\ m'.score1 = m'.round - 1
                /\ m'.score2 = 5 + m'.round - 1]_vars

C12Witness ==
    /\ players = <<"HighExpectationsAsianFather", "scumbagSteve">>
    /\ event.op = "resolve"
    /\ m.round = MaxRounds
    /\ m.scoreChange1 = 1
    /\ m.scoreChange2 = 1
    /\ m.score1 = MaxRounds - 1

\* ------------------------------------------------- tournament behaviours
\* What every behaviour of a Tournament starts from: the constructed
\* Tournament, the arguments getMatch will be asked with, and the single
\* Match m, which stays as constructed.
TournamentBuilt(roster, rounds, i1, i2) ==
    /\ t = Tournament(roster, rounds)
    /\ ask = <<i1, i2>>
    /\ answer = NoAnswer
    /\ m = Match("goodGuyGreg", "goodGuyGreg", 1)
    /\ players = <<"goodGuyGreg", "goodGuyGreg">>
    /\ pc = "idle"
    /\ move1 = undefined
    /\ move2 = undefined
    /\ owner = 0
    /\ promise = "none"
    /\ drv = [d \in Drivers |-> "unused"]
    /\ err = [d \in Drivers |-> "none"]
    /\ caught = [d \in Drivers |-> "none"]
    /\ queue = <<>>
    /\ event = [op |-> "new Tournament", ctx |-> "caller",
                result |-> "Tournament"]
    /\ args = <<"none", "none">>
    /\ calls = <<0, 0>>
    /\ produced = <<"none", "none">>
    /\ pre = [score1 |-> 0, score2 |-> 0, round |-> 0]

\* A Tournament is constructed over a roster of 0 .. MaxPlayers factories;
\* its Matches are then advanced round by round, in any order, and its
\* scores are read in between.
TournamentInit ==
    \E N \in 0..MaxPlayers, rounds \in 1..MaxTournamentRounds :
      \E roster \in [0..N-1 -> RosterFactories] :
        TournamentBuilt(roster, rounds, 0, 0)

\* A Tournament is constructed and getMatch is called with arguments drawn
\* from the integers around the roster's index range and a non-integer.
GetMatchInit ==
    \E N \in 0..MaxPlayers, rounds \in 1..MaxTournamentRounds :
      \E roster \in [0..N-1 -> RosterFactories],
         i1 \in QueryArgs(N), i2 \in QueryArgs(N) :
        TournamentBuilt(roster, rounds, i1, i2)

RosterSize == Cardinality(DOMAIN t.players)

\* tournament.getMatch(i1, i2).
GetMatch ==
    /\ answer' = getMatch(t, ask[1], ask[2])
    /\ UNCHANGED <<t, ask, mvars>>

\* tournament.getScore(i) for a player i of the roster.
GetScore ==
    /\ \E i \in 0..RosterSize-1 : answer' = getScore(t, i)
    /\ UNCHANGED <<t, ask, mvars>>

\* playRound() on one of the Tournament's Matches.
TournamentPlayRound ==
    /\ \E p \in DOMAIN t.matches :
         LET done1 == playRoundSync(t.matches[p], "body", "body") IN
         /\ t' = [t EXCEPT !.matches[p] = done1.match]
         /\ answer' = Outcome("playRound", 0, 0,
                              IF done1.result \in {"fulfilled", "rejected"}
                              THEN "return" ELSE "throw",
                              done1.result, <<>>, 0, "")
    /\ UNCHANGED <<ask, mvars>>

TournamentNext ==
    \/ GetScore
    \/ TournamentPlayRound

TournamentSpec == TournamentInit /\ [][TournamentNext]_vars

GetMatchNext == GetMatch

GetMatchSpec == GetMatchInit /\ [][GetMatchNext]_vars

\* C13: getMatch(i1, i2) returns the Match of the pair exactly when i1 and
\* i2 are integers with 0 <= i2 < i1 < N, and throws the invalid-argument
\* error for every other pair of arguments.
C13GetMatchContract ==
    answer.op = "getMatch" =>
        IF /\ floor(answer.i1) = answer.i1
           /\ floor(answer.i2) = answer.i2
           /\ 0 <= answer.i2
           /\ answer.i2 < answer.i1
           /\ answer.i1 < 2 * RosterSize
        THEN /\ answer.completion = "return"
             /\ answer.kind = "Match"
             /\ answer.at = <<answer.i1 \div 2, answer.i2 \div 2>>
        ELSE /\ answer.completion = "throw"
             /\ answer.kind = "InvalidArgument"

RECURSIVE Sum(_, _)
Sum(f, S) ==
    IF S = {} THEN 0
    ELSE LET x == CHOOSE y \in S : TRUE IN f[x] + Sum(f, S \ {x})

\* What the Matches hold for player i: score1 where i is player 1 (the
\* pairs (i, j), j < i), score2 where i is player 2 (the pairs (j, i)).
ScoreOf(i) ==
    LET N == RosterSize
        asFirst == [j \in 0..i-1 |-> t.matches[<<i, j>>].score1]
        asSecond == [j \in i+1..N-1 |-> t.matches[<<j, i>>].score2]
    IN  Sum(asFirst, 0..i-1) + Sum(asSecond, i+1..N-1)

\* C14: getScore(i) is the number obtained by adding, over the Matches of
\* player i, the score the Match currently holds for that player.
C14GetScoreSums ==
    answer.op = "getScore" =>
        /\ answer.completion = "return"
        /\ answer.kind = "number"
        /\ answer.number = ScoreOf(answer.i1 \div 2)

\* The factory a Match shows for its player n: the kind of the generator
\* it holds, or a forfeit at construction by that player.
ShowsPlayer(match, n, kind) ==
    IF kind = "raises"
    THEN match[GenField(n)] = NoGen /\ match.status = done
         /\ match[ScoreField(n)] = 0
    ELSE match[GenField(n)] # NoGen => match[GenField(n)].kind = kind

\* C15: a Tournament over N factories holds exactly N(N-1)/2 Matches, one
\* at every index pair (i, j) with 0 <= j < i < N and none elsewhere (none
\* with i = j), the Match at (i, j) having roster entry i as player 1 and
\* roster entry j as player 2.
C15TriangularMatches ==
    LET N == RosterSize IN
    /\ 2 * Cardinality(DOMAIN t.matches) = N * (N - 1)
    /\ \A i \in 0..N, j \in 0..N :
          <<i, j>> \in DOMAIN t.matches <=> (j < i /\ i < N)
    /\ \A p \in DOMAIN t.matches :
          /\ ShowsPlayer(t.matches[p], 1, t.players[p[1]])
          /\ t.players[p[1]] # "raises" =>
                /\ t.matches[p]._g1.kind = t.players[p[1]]
                /\ ShowsPlayer(t.matches[p], 2, t.players[p[2]])
                /\ t.players[p[2]] # "raises" =>
                      t.matches[p]._g2.kind = t.players[p[2]]

C15Witness ==
    /\ RosterSize = MaxPlayers
    /\ Cardinality(DOMAIN t.matches) >= 3
    /\ t.players[0] = "goodGuyGreg"
    /\ t.players[1] = "scumbagSteve"
    /\ t.players[2] = "raises"
    /\ t.matches[<<1, 0>>].score1 = 5
    /\ t.matches[<<1, 0>>].score2 = 0
    /\ t.matches[<<2, 1>>].score2 = 5 * t.matches[<<2, 1>>].roundLimit
    /\ answer.op = "playRound"
    /\ answer.kind = "fulfilled"

\* A forfeit: a factory threw at construction, or a strategy yielded an
\* illegal value or returned in some round (after which no round begins).
Forfeited == Raised(1) \/ Raised(2) \/ Misbehaved(1) \/ Misbehaved(2)

\* C16: the Match is done exactly when the round counter has reached
\* roundLimit or a forfeit has occurred.
C16DoneIffLimitOrForfeit ==
    (m.status = done) <=> (m.round = m.roundLimit \/ Forfeited)

\* C17: while no playRound body is executing the Match is paused or done.
C17NeverLeftRunning ==
    pc = "idle" => m.status \in {paused, done}

\* C18: the round counter stays within 0 .. roundLimit and no step lowers
\* score1 or score2, whatever callers and drivers are interleaved.
C18RoundBoundScoresMonotone ==
    /\ [](0 <= m.round /\ m.round <= m.roundLimit)
    /\ [][m'.score1 >= m.score1 /\ m'.score2 >= m.score2]_vars

C18Witness ==
    /\ \A d \in Drivers : drv[d] = "roundFulfilled"
    /\ m.status = done
    /\ m.round = MaxRounds
    /\ m.score1 > 0
    /\ m.score2 > 0

\* A playMatch promise is driving rounds while a playRound it called is in
\* progress or a reaction of its chain is queued.
Driving(d) ==
    drv[d] \in {"awaiting", "roundFulfilled", "roundRejected", "thenRejected"}

\* C19: on a Match that was paused after construction and whose strategies
\* have yielded legal moves throughout, rounds are played strictly one
\* after another (each generator has been resumed once per finished round,
\* plus once in the round in progress), never more than roundLimit of
\* them and exactly roundLimit once the Match is done; no playMatch call
\* of a caller throws and no playMatch promise is rejected; a resolved one
\* finds the Match done; and every playMatch promise that is driving
\* rounds gets resolved: from some moment on none is left driving.
C19DriversSerialized ==
    /\ [](~Forfeited =>
            /\ calls[1] = m.round + (IF pc \in {"move2", "score"} THEN 1 ELSE 0)
            /\ calls[2] = m.round + (IF pc = "score" THEN 1 ELSE 0)
            /\ m.round <= m.roundLimit
            /\ m.status = done => m.round = m.roundLimit
            /\ pc # "idle" => m.status = running /\ m.round < m.roundLimit
            /\ (event.op = "playMatch" /\ event.ctx = "caller") =>
                  event.result \in {"promise", "resolved"}
            /\ \A d \in Drivers :
                  /\ drv[d] # "rejected"
                  /\ drv[d] = "resolved" => m.status = done)
    /\ <>[](Forfeited \/ \A d \in Drivers : ~Driving(d))

C19Witness ==
    /\ ~Forfeited
    /\ \A d \in Drivers : drv[d] = "resolved"
    /\ event = [op |-> "then", ctx |-> "driver", result |-> "resolved"]
    /\ m.round = MaxRounds
    /\ calls = <<MaxRounds, MaxRounds>>
    /\ players = <<"HighExpectationsAsianFather", "blackbox">>

\* C20: for strategies that always yield legal moves, the scores of a Match
\* driven to its end by playMatch are the pair the legacy play returns for
\* the same two strategies and number of rounds.
C20AgreesWithLegacyPlay ==
    LET ExampleStrategies ==
            {"goodGuyGreg", "scumbagSteve", "HighExpectationsAsianFather"}
    IN  (/\ players[1] \in ExampleStrategies
         /\ players[2] \in ExampleStrategies
         /\ m.status = done
         /\ \E d \in Drivers : drv[d] = "resolved") =>
            LET legacy == play(players[1], players[2], m.roundLimit) IN
            /\ legacy.completion = "return"
            /\ legacy.value = <<m.score1, m.score2>>

====
